---- MODULE Spec2Model ----
(***************************************************************************)
(* A model of sup-ai: the three-state usage-preference forest              *)
(* (src/src/lib.rs), its hand-written expression parser (mod manual) and   *)
(* the robots.txt extension (src/src/robots.rs).                           *)
(*                                                                         *)
(* Byte strings are sequences of one-character strings; "xFF" stands for a *)
(* byte that is not valid UTF-8.  Indices are 1-based; the Rust Option     *)
(* None of an index is None == 0.                                          *)
(***************************************************************************)
EXTENDS Integers, Sequences, FiniteSets, TLC

VARIABLES
    up,         \* the UsagePreferences under construction: [items, max_len]
    panicked,   \* TRUE once an add/add_child assertion has failed
    denied,     \* ghost: indices of the nodes a No has been merged into
    expr,       \* manual::parse: the input handed to parse
    r,          \* manual::parse: the bytes the Peekable iterator still holds
    pc,         \* manual::parse: "idle", "loop" (inside the while) or "done"
    passes,     \* ghost: the number of passes of the while loop made so far
    source,     \* Robots::parse: the line source, [lines, limit]: the lines
                \* read_line may yield and how many it yields at most
    consumed,   \* ghost: the lines read_line has yielded so far
    robots,     \* Robots::parse: r.groups; after parse, the Robots value
    group,      \* Robots::parse: the group being assembled
    line,       \* Robots::parse: the line counter
    ua,         \* Robots::parse: the previous directive was a User-Agent
    rpc,        \* Robots::parse: "idle", "read" (in the loop), "parsed" (it
                \* returned Ok), "io_error" or "invalid_data" (it returned Err)
    answer      \* the last call of Robots::preferences and what it returned

parserVars == <<expr, r, pc, passes>>

robotsVars == <<source, consumed, robots, group, line, ua, rpc, answer>>

vars == <<up, panicked, denied, expr, r, pc, passes,
          source, consumed, robots, group, line, ua, rpc, answer>>

None == 0

(***************************************************************************)
(* Sequence helpers                                                        *)
(***************************************************************************)
Min(S) == CHOOSE x \in S : \A y \in S : x <= y

Max(S) == CHOOSE x \in S : \A y \in S : x >= y

Drop(s, k) == SubSeq(s, k + 1, Len(s))

Take(s, k) == SubSeq(s, 1, k)

MinOrNone(S) == IF S = {} THEN None ELSE Min(S)

\* items.iter().position(|it| it.name == name): the first index, or None.
position(items, name) ==
    MinOrNone({k \in 1..Len(items) : items[k].name = name})

\* All sequences over S of length at most n.
BoundedSeq(S, n) == UNION {[1..k -> S] : k \in 0..n}

(***************************************************************************)
(* enum State and its merge (lib.rs 6-27), UsagePreference (29-44)         *)
(***************************************************************************)
State == {"Unknown", "Yes", "No"}

UsagePreference == {"Allowed", "Denied"}

\* A plausible slip: the merge is allow-dominant.
State_merge_allow_wins(self, other) ==
    IF self = "Yes" \/ other = "Yes" THEN "Yes"
    ELSE IF self = "No" \/ other = "No" THEN "No"
    ELSE "Unknown"

\* A plausible slip: the later value wins instead of No.
State_merge_last_wins(self, other) ==
    IF other = "Unknown" THEN self ELSE other

State_merge(self, other) ==
    IF self = "No" \/ other = "No" THEN "No"
    ELSE IF self = "Yes" \/ other = "Yes" THEN "Yes"
    ELSE "Unknown"

\* TryFrom<State> for UsagePreference, followed by unwrap_or(dflt).
try_from_or(value, dflt) ==
    CASE value = "Unknown" -> dflt
      [] value = "Yes"     -> "Allowed"
      [] value = "No"      -> "Denied"

(***************************************************************************)
(* struct Item, struct UsagePreferences (lib.rs 46-57)                     *)
(***************************************************************************)
Item(name, parent, value) == [name |-> name, parent |-> parent, value |-> value]

blank == [items |-> <<>>, max_len |-> 0]

\* A plausible slip: the assertion on duplicates is missing.
add_inner_any_name(self, usage, parent) ==
    IF \/ \E k \in 1..Len(usage) : usage[k] = ","
       \/ \E k \in 1..Len(usage) : usage[k] = "="
    THEN [ok |-> FALSE, up |-> self]
    ELSE [ok |-> TRUE,
          up |-> [items   |-> Append(self.items, Item(usage, parent, "Unknown")),
                  max_len |-> IF Len(usage) > self.max_len THEN Len(usage)
                              ELSE self.max_len]]

\* The outcome of a call that may panic: ok = FALSE when an assertion failed,
\* in which case the forest is the one the call was made on.
add_inner(self, usage, parent) ==
    IF \/ \E k \in 1..Len(usage) : usage[k] = ","
       \/ \E k \in 1..Len(usage) : usage[k] = "="
       \/ \E k \in 1..Len(self.items) : self.items[k].name = usage
    THEN [ok |-> FALSE, up |-> self]
    ELSE [ok |-> TRUE,
          up |-> [items   |-> Append(self.items, Item(usage, parent, "Unknown")),
                  max_len |-> IF Len(usage) > self.max_len THEN Len(usage)
                              ELSE self.max_len]]

add(self, usage) == add_inner(self, usage, None)

\* A plausible slip: the index stored as parent is the new node's own.
add_under_itself(self, usage, p) ==
    IF p = None THEN [ok |-> FALSE, up |-> self]
    ELSE add_inner(self, usage, Len(self.items) + 1)

\* add_child once the parent's position p is known (lib.rs 133-134).
add_under(self, usage, p) ==
    IF p = None THEN [ok |-> FALSE, up |-> self]
    ELSE add_inner(self, usage, p)

add_child(self, usage, parent) ==
    add_under(self, usage, position(self.items, parent))

\* A plausible slip: the walk looks at the parent only, not further up.
get_state_one_level(self, i) ==
    IF self.items[i].value # "Unknown" THEN self.items[i].value
    ELSE IF self.items[i].parent # None
         THEN self.items[self.items[i].parent].value
    ELSE "Unknown"

RECURSIVE get_state(_, _)
get_state(self, i) ==
    IF self.items[i].value # "Unknown" THEN self.items[i].value
    ELSE IF self.items[i].parent # None THEN get_state(self, self.items[i].parent)
    ELSE "Unknown"

\* A plausible slip: a registered name that starts with the probe matches.
index_of_prefix(self, usage) ==
    MinOrNone({k \in 1..Len(self.items) :
                 /\ Len(self.items[k].name) >= Len(usage)
                 /\ Take(self.items[k].name, Len(usage)) = usage})

index_of(self, usage) == position(self.items, usage)

\* eval once the index i of the usage is known (lib.rs 160-163).
eval_at(self, i, dflt) ==
    IF i = None THEN dflt ELSE try_from_or(get_state(self, i), dflt)

eval(self, usage, dflt) == eval_at(self, index_of(self, usage), dflt)

\* A plausible slip: other's stored value is merged, not its resolved state.
merge_item_stored(item, other, idx) ==
    IF idx = None THEN item
    ELSE [item EXCEPT !.value = State_merge(@, other.items[idx].value)]

\* The body of the loop of merge for one item, idx being other's index of
\* the item's name (lib.rs 169-171).
merge_item(item, other, idx) ==
    IF idx = None THEN item
    ELSE [item EXCEPT !.value = State_merge(@, get_state(other, idx))]

merge(self, other) ==
    [self EXCEPT !.items =
        [k \in 1..Len(self.items) |->
            merge_item(self.items[k], other, index_of(other, self.items[k].name))]]

(***************************************************************************)
(* The registered default keys (lib.rs 65-86) and Default (347-360)        *)
(***************************************************************************)
ALL == <<"a", "l", "l">>

TRAIN_AI == <<"t", "r", "a", "i", "n", "-", "a", "i">>

TRAIN_GENAI == <<"t", "r", "a", "i", "n", "-", "g", "e", "n", "a", "i">>

AI_USE == <<"a", "i", "-", "u", "s", "e">>

SEARCH == <<"s", "e", "a", "r", "c", "h">>

default ==
    LET v1 == add(blank, ALL).up
        v2 == add_child(v1, TRAIN_AI, ALL).up
        v3 == add_child(v2, TRAIN_GENAI, TRAIN_AI).up
        v4 == add_child(v3, AI_USE, ALL).up
    IN  add_child(v4, SEARCH, ALL).up

(***************************************************************************)
(* mod manual: the Input helpers (lib.rs 268-297)                          *)
(***************************************************************************)
\* u8::is_ascii_whitespace: space, tab, line feed, form feed, carriage return.
is_ascii_whitespace(c) == c \in {" ", "\t", "\n", "\f", "\r"}

DropTo(rd, stop) == IF stop = None THEN <<>> ELSE Drop(rd, stop - 1)

\* Input::skip_until(|c| c == b','): drops the bytes before the first ','.
skip_until_comma(rd) == DropTo(rd, MinOrNone({k \in 1..Len(rd) : rd[k] = ","}))

\* Input::skip_ws: drops the bytes before the first that is no whitespace.
skip_ws(rd) ==
    DropTo(rd, MinOrNone({k \in 1..Len(rd) : ~is_ascii_whitespace(rd[k])}))

TakeTo(n, last) == IF last = {} THEN <<>> ELSE Take(n, Max(last))

\* <[u8]>::trim_ascii_end
trim_ascii_end(n) == TakeTo(n, {k \in 1..Len(n) : ~is_ascii_whitespace(n[k])})

(***************************************************************************)
(* manual::parse_name (lib.rs 299-317): [pos, rd], pos = None when the     *)
(* entry names no node, rd the input left behind.                          *)
(***************************************************************************)
\* A plausible slip: the name is looked up whether or not '=' follows it.
name_lookup_any_end(items, n, r2) ==
    [pos |-> position(items, trim_ascii_end(n)),
     rd  |-> IF r2 # <<>> /\ Head(r2) = "=" THEN Tail(r2) ELSE r2]

\* lib.rs 310-316: n the bytes read as the name, r2 the input after the
\* whitespace that follows them.
name_lookup(items, n, r2) ==
    IF r2 # <<>> /\ Head(r2) = "="
    THEN [pos |-> position(items, trim_ascii_end(n)),
          rd  |-> Tail(r2)]
    ELSE [pos |-> None, rd |-> r2]

\* The number of bytes the for loop of lib.rs 302-308 reads: it stops at
\* max_len, at the end of the input, or before the byte at stop ('=' or ',').
name_run(r1, max_len, stop) ==
    IF stop # None /\ stop - 1 < max_len THEN stop - 1
    ELSE IF Len(r1) < max_len THEN Len(r1)
    ELSE max_len

name_scan(items, r1, taken) ==
    name_lookup(items, Take(r1, taken), skip_ws(Drop(r1, taken)))

name_start(items, r1, max_len) ==
    name_scan(items, r1,
              name_run(r1, max_len,
                       MinOrNone({k \in 1..Len(r1) : r1[k] = "=" \/ r1[k] = ","})))

parse_name(items, rd, max_len) == name_start(items, skip_ws(rd), max_len)

(***************************************************************************)
(* manual::parse_value (lib.rs 319-332): [v, rd]                           *)
(***************************************************************************)
\* lib.rs 321-325: r.next() yields the state and consumes one byte, whatever
\* that byte is.
next_state(r1) ==
    IF r1 = <<>> THEN "Unknown"
    ELSE IF Head(r1) = "y" THEN "Yes"
    ELSE IF Head(r1) = "n" THEN "No"
    ELSE "Unknown"

after_next(r1) == IF r1 = <<>> THEN r1 ELSE Tail(r1)

\* A plausible slip: what follows the first byte of the value is not looked at.
value_end_unchecked(v, r2) == [v |-> v, rd |-> r2]

\* A plausible slip: only the end of the input ends a value.
value_end_eof_only(v, r2) ==
    [v |-> IF r2 = <<>> THEN v ELSE "Unknown", rd |-> r2]

\* lib.rs 327-331
value_end(v, r2) ==
    [v  |-> IF r2 = <<>> \/ Head(r2) = "," THEN v ELSE "Unknown", rd |-> r2]

value_start(r1) == value_end(next_state(r1), skip_ws(after_next(r1)))

parse_value(rd) == value_start(skip_ws(rd))

(***************************************************************************)
(* manual::parse (lib.rs 334-344).  parse_entry is one pass of the while   *)
(* loop: [items, rd, pos, v], pos and v being the node and the state it    *)
(* merged (pos = None when it merged nothing).                             *)
(***************************************************************************)
\* A plausible slip: the ',' is left in the input.
discard_nothing(rd) == rd

\* lib.rs 342: Iterator::next(&mut r)
discard_comma(rd) == IF rd = <<>> THEN rd ELSE Tail(rd)

\* lib.rs 341-342
entry_end(items, pos, v, r1) ==
    [items |-> items, pos |-> pos, v |-> v,
     rd    |-> discard_comma(skip_until_comma(r1))]

\* lib.rs 338-339
entry_valued(prefs, pos, pv) ==
    entry_end([prefs.items EXCEPT ![pos].value = State_merge(@, pv.v)],
              pos, pv.v, pv.rd)

\* lib.rs 337
entry_named(prefs, pn) ==
    IF pn.pos = None THEN entry_end(prefs.items, None, "Unknown", pn.rd)
    ELSE entry_valued(prefs, pn.pos, parse_value(pn.rd))

parse_entry(prefs, rd) ==
    entry_named(prefs, parse_name(prefs.items, rd, prefs.max_len))

\* The while loop: [up, merges], merges being the (pos, v) pairs of the
\* passes that merged a state into a node, in order.
RECURSIVE parse_loop(_, _, _)
loop_pass(prefs, e, merges) ==
    parse_loop([prefs EXCEPT !.items = e.items], e.rd,
               IF e.pos = None THEN merges ELSE Append(merges, <<e.pos, e.v>>))

parse_loop(prefs, rd, merges) ==
    IF rd = <<>> THEN [up |-> prefs, merges |-> merges]
    ELSE loop_pass(prefs, parse_entry(prefs, rd), merges)

\* UsagePreferences::parse (lib.rs 188-191)
parse(prefs, input) == parse_loop(prefs, input, <<>>).up

(***************************************************************************)
(* robots.rs: the lines of a robots.txt file                               *)
(***************************************************************************)
UpperCase ==
    <<"A", "B", "C", "D", "E", "F", "G", "H", "I", "J", "K", "L", "M",
      "N", "O", "P", "Q", "R", "S", "T", "U", "V", "W", "X", "Y", "Z">>

LowerCase ==
    <<"a", "b", "c", "d", "e", "f", "g", "h", "i", "j", "k", "l", "m",
      "n", "o", "p", "q", "r", "s", "t", "u", "v", "w", "x", "y", "z">>

\* u8::to_ascii_lowercase
lower_byte(c) ==
    IF \E k \in 1..26 : UpperCase[k] = c
    THEN LowerCase[CHOOSE k \in 1..26 : UpperCase[k] = c]
    ELSE c

to_ascii_lowercase(s) == [k \in 1..Len(s) |-> lower_byte(s[k])]

eq_ignore_ascii_case(a, b) == to_ascii_lowercase(a) = to_ascii_lowercase(b)

\* str::trim_ascii
trim_ascii(s) == trim_ascii_end(skip_ws(s))

USER_AGENT == <<"u", "s", "e", "r", "-", "a", "g", "e", "n", "t">>

CONTENT_USAGE ==
    <<"c", "o", "n", "t", "e", "n", "t", "-", "u", "s", "a", "g", "e">>

ALLOW == <<"a", "l", "l", "o", "w">>

DISALLOW == <<"d", "i", "s", "a", "l", "l", "o", "w">>

STAR == <<"*">>

\* s.split_once(c).map(|(a, _b)| a).unwrap_or(s), k the index of c or None
Before(s, k) == IF k = None THEN s ELSE Take(s, k - 1)

\* robots.rs 163-166: the line up to the first '#'
strip_comment(buf) == Before(buf, MinOrNone({k \in 1..Len(buf) : buf[k] = "#"}))

\* robots.rs 167-168: split_once(':') and trim_ascii of both sides; k the
\* index of the first ':' or None.  ok = FALSE stands for Option::None.
directive_at(s, k) ==
    IF k = None THEN [ok |-> FALSE, name |-> <<>>, value |-> <<>>]
    ELSE [ok |-> TRUE, name |-> trim_ascii(Take(s, k - 1)),
          value |-> trim_ascii(Drop(s, k))]

directive_of(s) == directive_at(s, MinOrNone({k \in 1..Len(s) : s[k] = ":"}))

directive(buf) == directive_of(strip_comment(buf))

(***************************************************************************)
(* struct ContentUsageLine, AdmissionLine, Group (robots.rs 8-50)          *)
(***************************************************************************)
ContentUsageLine(ln, path, usage) == [line |-> ln, path |-> path, usage |-> usage]

AdmissionLine(ln, allow, path) == [line |-> ln, allow |-> allow, path |-> path]

\* A plausible slip: at equal length the later rule wins.
is_more_specific_or_equal(self, other) == Len(self.path) >= Len(other.path)

is_more_specific(self, other) ==
    IF Len(self.path) > Len(other.path) THEN TRUE
    ELSE IF Len(self.path) = Len(other.path) THEN self.allow
    ELSE FALSE

\* Group::default() with the given line
Group(ln) ==
    [line |-> ln, user_agents |-> <<>>, usage_preferences |-> <<>>,
     admissions |-> <<>>]

(***************************************************************************)
(* Group::parse_line (robots.rs 54-77)                                     *)
(***************************************************************************)
\* robots.rs 65-68
content_usage_rule(g, ln, path, expression) ==
    [g EXCEPT !.usage_preferences =
        Append(@, ContentUsageLine(ln, path, parse(default, expression)))]

\* robots.rs 58-61: value.split_once(&[' ', '\t']), k the index of the
\* first space or tab, or None
content_usage_split(g, ln, value, k) ==
    IF k = None THEN g
    ELSE content_usage_rule(g, ln, Take(value, k - 1), Drop(value, k))

\* robots.rs 57-64
content_usage(g, ln, value) ==
    IF value # <<>> /\ Head(value) = "/"
    THEN content_usage_split(g, ln, value,
             MinOrNone({k \in 1..Len(value) : value[k] = " " \/ value[k] = "\t"}))
    ELSE content_usage_rule(g, ln, <<>>, value)

parse_line(g, ln, name, value) ==
    IF eq_ignore_ascii_case(name, CONTENT_USAGE) THEN content_usage(g, ln, value)
    ELSE IF eq_ignore_ascii_case(name, ALLOW)
    THEN [g EXCEPT !.admissions = Append(@, AdmissionLine(ln, TRUE, value))]
    ELSE IF eq_ignore_ascii_case(name, DISALLOW)
    THEN [g EXCEPT !.admissions = Append(@, AdmissionLine(ln, FALSE, value))]
    ELSE g

(***************************************************************************)
(* Group::path_match (robots.rs 84-109)                                    *)
(***************************************************************************)
\* str::trim_end_matches('*')
trim_end_stars(p) == TakeTo(p, {k \in 1..Len(p) : p[k] # "*"})

\* robots.rs 86-91: p is the pattern without its final '$'
anchored(p) ==
    IF p # <<>> /\ p[Len(p)] = "*"
    THEN [pattern |-> trim_end_stars(p), complete |-> FALSE]
    ELSE [pattern |-> p, complete |-> TRUE]

\* robots.rs 85-94: (pattern, complete)
anchor(pattern) ==
    IF pattern # <<>> /\ pattern[Len(pattern)] = "$"
    THEN anchored(Take(pattern, Len(pattern) - 1))
    ELSE [pattern |-> pattern, complete |-> FALSE]

\* str::split('*'): the chunks between the '*', at least one
RECURSIVE split_star(_)
split_at(s, k) ==
    IF k = None THEN <<s>>
    ELSE <<Take(s, k - 1)>> \o split_star(Drop(s, k))

split_star(s) == split_at(s, MinOrNone({k \in 1..Len(s) : s[k] = "*"}))

\* str::find: the 1-based position of the first occurrence of c, or None
find(remainder, c) ==
    MinOrNone({k \in 1..(Len(remainder) - Len(c) + 1) :
                 SubSeq(remainder, k, k + Len(c) - 1) = c})

\* robots.rs 102-108: the chunks after the first
RECURSIVE match_chunks(_, _, _)
match_found(chunks, remainder, complete, k) ==
    IF k = None THEN FALSE
    ELSE match_chunks(Tail(chunks),
                      Drop(remainder, k - 1 + Len(Head(chunks))), complete)

match_chunks(chunks, remainder, complete) ==
    IF chunks = <<>> THEN ~complete \/ remainder = <<>>
    ELSE match_found(chunks, remainder, complete, find(remainder, Head(chunks)))

\* robots.rs 95-101: path.strip_prefix(first)
match_first(chunks, path, complete) ==
    IF /\ Len(Head(chunks)) <= Len(path)
       /\ Take(path, Len(Head(chunks))) = Head(chunks)
    THEN match_chunks(Tail(chunks), Drop(path, Len(Head(chunks))), complete)
    ELSE FALSE

\* A plausible slip: a pattern with nothing in it matches nothing.
match_anchor_nonempty(a, path) ==
    a.pattern # <<>> /\ match_first(split_star(a.pattern), path, a.complete)

match_anchor(a, path) == match_first(split_star(a.pattern), path, a.complete)

path_match(pattern, path) == match_anchor(anchor(pattern), path)

(***************************************************************************)
(* Group::is_admitted (robots.rs 114-122)                                  *)
(***************************************************************************)
\* groups.flat_map(|g| &g.admissions)
RECURSIVE Admissions(_)
Admissions(gs) ==
    IF gs = <<>> THEN <<>> ELSE Head(gs).admissions \o Admissions(Tail(gs))

\* robots.rs 117-119
admit_step(current, a, path) ==
    IF path_match(a.path, path) /\ is_more_specific(a, current) THEN a
    ELSE current

RECURSIVE admit_scan(_, _, _)
admit_scan(lines, path, current) ==
    IF lines = <<>> THEN current
    ELSE admit_scan(Tail(lines), path, admit_step(current, Head(lines), path))

is_admitted(gs, path) ==
    admit_scan(Admissions(gs), path, AdmissionLine(0, FALSE, <<>>)).allow

(***************************************************************************)
(* Group::preferences (robots.rs 125-146)                                  *)
(***************************************************************************)
\* groups.flat_map(|g| &g.usage_preferences)
RECURSIVE UsageLines(_)
UsageLines(gs) ==
    IF gs = <<>> THEN <<>>
    ELSE Head(gs).usage_preferences \o UsageLines(Tail(gs))

\* A plausible slip: an equally long match also restarts the set.
usage_step_restart(acc, p, path) ==
    IF ~path_match(p.path, path) THEN acc
    ELSE IF Len(p.path) >= acc.len THEN [len |-> Len(p.path), matching |-> <<p>>]
    ELSE acc

\* robots.rs 130-140: acc is (len, matching)
usage_step(acc, p, path) ==
    IF ~path_match(p.path, path) THEN acc
    ELSE IF Len(p.path) > acc.len THEN [len |-> Len(p.path), matching |-> <<p>>]
    ELSE IF Len(p.path) = acc.len THEN [acc EXCEPT !.matching = Append(@, p)]
    ELSE acc

RECURSIVE usage_scan(_, _, _)
usage_scan(lines, path, acc) ==
    IF lines = <<>> THEN acc
    ELSE usage_scan(Tail(lines), path, usage_step(acc, Head(lines), path))

\* robots.rs 127-141: the rules left in matching
matching_rules(gs, path) ==
    usage_scan(UsageLines(gs), path, [len |-> 0, matching |-> <<>>]).matching

\* A plausible slip: the tie is settled by rule order, the last rule wins.
merge_last(prefs, matching) ==
    IF matching = <<>> THEN prefs
    ELSE merge(prefs, matching[Len(matching)].usage)

\* robots.rs 142-144
RECURSIVE merge_all(_, _)
merge_all(prefs, matching) ==
    IF matching = <<>> THEN prefs
    ELSE merge_all(merge(prefs, Head(matching).usage), Tail(matching))

\* A plausible slip: only the first of the rules left is merged.
Group_preferences_first(gs, path) ==
    IF matching_rules(gs, path) = <<>> THEN default
    ELSE merge(default, Head(matching_rules(gs, path)).usage)

Group_preferences(gs, path) == merge_all(default, matching_rules(gs, path))

(***************************************************************************)
(* Robots::parse (robots.rs 154-191).  The locals of parse are the record  *)
(* [groups, group, line, ua].                                              *)
(***************************************************************************)
\* A plausible slip: the first group takes over the rules read before it.
user_agent_line_keep_rules(st, ln, value) ==
    [groups |-> IF ~st.ua /\ st.group.line # 0
                THEN Append(st.groups, st.group) ELSE st.groups,
     group  |-> [(IF st.ua THEN st.group
                  ELSE IF st.group.line = 0 THEN [st.group EXCEPT !.line = ln]
                  ELSE Group(ln)) EXCEPT
                    !.user_agents = Append(@, to_ascii_lowercase(value))],
     line   |-> ln,
     ua     |-> TRUE]

\* A plausible slip: every User-Agent line starts a group.
user_agent_line_new_group(st, ln, value) ==
    [groups |-> IF st.group.line # 0
                THEN Append(st.groups, st.group) ELSE st.groups,
     group  |-> [Group(ln) EXCEPT !.user_agents = <<to_ascii_lowercase(value)>>],
     line   |-> ln,
     ua     |-> TRUE]

\* robots.rs 170-181: a User-Agent line
user_agent_line(st, ln, value) ==
    [groups |-> IF ~st.ua /\ st.group.line # 0
                THEN Append(st.groups, st.group) ELSE st.groups,
     group  |-> [(IF ~st.ua THEN Group(ln) ELSE st.group) EXCEPT
                    !.user_agents = Append(@, to_ascii_lowercase(value))],
     line   |-> ln,
     ua     |-> TRUE]

\* robots.rs 182-185: any other directive
other_line(st, ln, d) ==
    [groups |-> st.groups,
     group  |-> parse_line(st.group, ln, d.name, d.value),
     line   |-> ln,
     ua     |-> FALSE]

\* robots.rs 162-187: d is what the line split into
read_directive(st, ln, d) ==
    IF ~d.ok THEN [st EXCEPT !.line = ln]
    ELSE IF eq_ignore_ascii_case(d.name, USER_AGENT)
    THEN user_agent_line(st, ln, d.value)
    ELSE other_line(st, ln, d)

\* One pass of the while loop on the line buf.
read_line(st, buf) == read_directive(st, st.line + 1, directive(buf))

\* robots.rs 155-158
parse_start == [groups |-> <<>>, group |-> Group(0), line |-> 0, ua |-> FALSE]

\* robots.rs 189: r.groups.push(group)
parse_end(st) == Append(st.groups, st.group)

\* BufRead::read_line into a String (robots.rs 160-161): bytes that are not
\* valid UTF-8 make it return an error of kind InvalidData.
from_utf8(buf) == \A k \in 1..Len(buf) : buf[k] # "xFF"

\* Result<Robots>: Ok(r), the groups of r, or Err
Ok(gs) == [ok |-> TRUE, groups |-> gs]

Err == [ok |-> FALSE, groups |-> <<>>]

\* Robots::parse of a whole file, a sequence of lines
RECURSIVE parse_lines(_, _)
parse_lines(st, file) ==
    IF file = <<>> THEN Ok(parse_end(st))
    ELSE IF ~from_utf8(Head(file)) THEN Err
    ELSE parse_lines(read_line(st, Head(file)), Tail(file))

Robots_parse(file) == parse_lines(parse_start, file)

(***************************************************************************)
(* Robots::groups and Robots::preferences (robots.rs 193-221)              *)
(***************************************************************************)
names_agent(g, user_agent) ==
    \E k \in 1..Len(g.user_agents) :
        eq_ignore_ascii_case(g.user_agents[k], user_agent)

RECURSIVE groups(_, _)
groups(gs, user_agent) ==
    IF gs = <<>> THEN <<>>
    ELSE (IF names_agent(Head(gs), user_agent) THEN <<Head(gs)>> ELSE <<>>)
         \o groups(Tail(gs), user_agent)

Some(prefs) == [some |-> TRUE, prefs |-> prefs]

NoPrefs == [some |-> FALSE, prefs |-> blank]

\* A plausible slip: the wildcard groups are consulted only when no group
\* names the user agent.
preferences_of_exact_first(exact, wild, path) ==
    IF exact # <<>>
    THEN (IF is_admitted(exact, path) THEN Some(Group_preferences(exact, path))
          ELSE NoPrefs)
    ELSE IF is_admitted(wild, path) THEN Some(Group_preferences(wild, path))
    ELSE NoPrefs

\* robots.rs 214-220: exact and wild are self.groups(&user_agent) and
\* self.groups("*")
preferences_of(exact, wild, path) ==
    IF is_admitted(exact, path) THEN Some(Group_preferences(exact, path))
    ELSE IF is_admitted(wild, path) THEN Some(Group_preferences(wild, path))
    ELSE NoPrefs

preferences_lower(gs, user_agent, path) ==
    preferences_of(groups(gs, user_agent), groups(gs, STAR), path)

preferences(gs, user_agent, path) ==
    preferences_lower(gs, to_ascii_lowercase(user_agent), path)

(***************************************************************************)
(* The forest as a state machine: registration, parse and merge applied in *)
(* any order to a forest that starts blank or as the default forest.       *)
(***************************************************************************)
\* Bound on the number of nodes of the forest (the default forest has 5).
MaxItems == 5

A == <<"a">>

B == <<"b">>

AB == <<"a", "b">>

\* Names handed to add/add_child; two of them hold a reserved byte.
NameSet == {A, B, AB, <<"a", ",">>, <<"=", "b">>}

Names(self) == {self.items[k].name : k \in 1..Len(self.items)}

Entry(n, v) == n \o <<"=">> \o v

\* Values of an entry: the two valid ones, one padded with whitespace, and
\* the invalid ones of test::invalid_value.
Values == {<<"y">>, <<"n">>, <<" ", "y", "\n">>, <<"n", "o">>}

\* The expressions handed to parse in a given forest: single entries, and
\* the inputs of test::deny_overrides_allow and test::invalid_value.
Exprs(self) ==
    {Entry(n, v) : n \in Names(self) \cup {AB}, v \in Values}
    \cup {Entry(TRAIN_AI, <<"y">>) \o <<",">> \o Entry(TRAIN_AI, <<"n">>)
            \o <<",">> \o Entry(TRAIN_AI, <<"y">>),
          Entry(ALL, <<"j", "u", "n", "k">>) \o <<",">> \o Entry(ALL, <<"y">>)
            \o <<",">> \o Entry(ALL, <<"n", "o">>)}

Custom == add_child(add(add(blank, A).up, B).up, <<"c">>, A).up

Unrelated == add(add(blank, TRAIN_AI).up, A).up

\* A forest whose child node bears a name the forest under test can hold.
Nested == add_child(add(blank, A).up, AB, A).up

\* The forests handed to merge: parsed default forests, the custom forests
\* of test::custom_domain and test::merge_unrelated, and a nested one.
OtherInputs ==
    {<<default, Entry(n, v)>> : n \in {ALL, TRAIN_AI, SEARCH}, v \in {<<"y">>, <<"n">>}}
    \cup {<<Custom, Entry(n, v)>> : n \in {A, B}, v \in {<<"y">>, <<"n">>}}
    \cup {<<Unrelated, Entry(TRAIN_AI, <<"n">>) \o <<",", " ">> \o Entry(A, <<"y">>)>>}
    \cup {<<Nested, Entry(A, <<"n">>)>>}

Others == {parse(o[1], o[2]) : o \in OtherInputs}

\* Ghost bookkeeping of the merges made, in order: no holds the nodes a No
\* was merged into, yes_after tells whether a Yes was ever merged into a
\* node after a No.
NoteMerges(d, merges) ==
    LET all == 1..Len(merges)
        NoBefore(j) == \/ merges[j][1] \in d.no
                       \/ \E h \in 1..(j - 1) : merges[h] = <<merges[j][1], "No">>
    IN  [no        |-> d.no \cup {merges[k][1] : k \in {j \in all : merges[j][2] = "No"}},
         yes_after |-> \/ d.yes_after
                       \/ \E j \in all : merges[j][2] = "Yes" /\ NoBefore(j)]

\* The (node, state) pairs UsagePreferences::merge merges, in item order.
RECURSIVE MergesFrom(_, _, _)
MergesAt(self, other, k, idx) ==
    (IF idx # None THEN <<<<k, get_state(other, idx)>>>> ELSE <<>>)
    \o MergesFrom(self, other, k + 1)

MergesFrom(self, other, k) ==
    IF k > Len(self.items) THEN <<>>
    ELSE MergesAt(self, other, k, index_of(other, self.items[k].name))

MergesOf(self, other) == MergesFrom(self, other, 1)

parserIdle == expr = <<>> /\ r = <<>> /\ pc = "idle" /\ passes = 0

NoAnswer == [user_agent |-> <<>>, path |-> <<>>, result |-> NoPrefs]

robotsIdle ==
    /\ source = [lines |-> {}, limit |-> 0, agents |-> {}, paths |-> {}]
    /\ consumed = <<>>
    /\ robots = <<>>
    /\ group = Group(0)
    /\ line = 0
    /\ ua = FALSE
    /\ rpc = "idle"
    /\ answer = NoAnswer

Init ==
    /\ up \in {blank, default}
    /\ panicked = FALSE
    /\ denied = [no |-> {}, yes_after |-> FALSE]
    /\ parserIdle
    /\ robotsIdle

Add(n) ==
    /\ ~panicked
    /\ Len(up.items) < MaxItems
    /\ \E res \in {add(up, n)} :
           /\ up' = res.up
           /\ panicked' = ~res.ok
    /\ UNCHANGED <<denied, parserVars, robotsVars>>

AddChild(n, p) ==
    /\ ~panicked
    /\ Len(up.items) < MaxItems
    /\ \E res \in {add_child(up, n, p)} :
           /\ up' = res.up
           /\ panicked' = ~res.ok
    /\ UNCHANGED <<denied, parserVars, robotsVars>>

Parse(e) ==
    /\ ~panicked
    /\ \E res \in {parse_loop(up, e, <<>>)} :
           /\ up' = res.up
           /\ denied' = NoteMerges(denied, res.merges)
    /\ UNCHANGED <<panicked, parserVars, robotsVars>>

Merge(other) ==
    /\ ~panicked
    /\ up' = merge(up, other)
    /\ denied' = NoteMerges(denied, MergesOf(up, other))
    /\ UNCHANGED <<panicked, parserVars, robotsVars>>

Next ==
    \/ \E n \in NameSet : Add(n)
    \/ \E n \in NameSet, p \in NameSet \cup {ALL} : AddChild(n, p)
    \/ \E e \in Exprs(up) : Parse(e)
    \/ \E other \in Others : Merge(other)

Spec == Init /\ [][Next]_vars

(***************************************************************************)
(* manual::parse pass by pass (specification SpecParse): a fresh forest    *)
(* and an input, then one step for each pass of the while loop.            *)
(***************************************************************************)
\* Bound on the length of the free part of the input.
MaxLen == 3

\* The bytes inputs are made of; "xFF" is a byte that is not valid UTF-8.
Bytes == {"a", "b", "=", ",", "y", "n", " ", "xFF"}

\* add_child("b", "a") under add("a"): max_len 1.
Pair == add_child(add(blank, A).up, B, A).up

\* Names of two lengths, one a prefix of the other: max_len 2.
Long == add(add(blank, AB).up, A).up

\* A forest whose only name is empty: an item, and max_len 0.
Nameless == add(blank, <<>>).up

Fixtures == {blank, Pair, Long, Nameless}

YN == {<<"y">>, <<"n">>}

\* Values that are no y or n (lib.rs 534: junk, no), and y and n set in
\* whitespace (lib.rs 524).
ValueTexts ==
    {<<"n", "o">>, <<"y", "e", "s">>, <<"j", "u", "n", "k">>, <<"y", " ", "y">>,
     <<"\r", "y", "\n">>, <<" ", "n", "\t">>}

\* Names set in whitespace, and names no fixture registers.
NameTexts(self) ==
    {<<" ">> \o n \o <<"\t">> : n \in Names(self)}
    \cup {AB, <<"b", "a">>, <<"a", " ", "b">>}

\* Inputs: any bytes up to MaxLen, or one entry with a name or a value out
\* of the ordinary, or two plain entries, followed by nothing or by ',' and
\* one plain entry for a registered name.
Heads(self) ==
    BoundedSeq(Bytes, MaxLen)
    \cup {Entry(n, v) : n \in Names(self), v \in ValueTexts}
    \cup {Entry(n, v) : n \in NameTexts(self), v \in YN}
    \cup {Entry(n, v) \o <<",">> \o Entry(m, w) :
            n \in Names(self) \cup {B}, m \in Names(self), v \in YN, w \in YN}

Tails(self) == {<<>>} \cup {<<",">> \o Entry(n, v) : n \in Names(self), v \in YN}

InitParse ==
    /\ up \in Fixtures
    /\ panicked = FALSE
    /\ denied = [no |-> {}, yes_after |-> FALSE]
    /\ expr \in {h \o t : h \in Heads(up), t \in Tails(up)}
    /\ r = expr
    /\ pc = "loop"
    /\ passes = 0
    /\ robotsIdle

\* One pass of the while loop of manual::parse (lib.rs 336-343).
ParseEntry ==
    /\ pc = "loop"
    /\ r # <<>>
    /\ \E e \in {parse_entry(up, r)} :
           /\ up' = [up EXCEPT !.items = e.items]
           /\ r' = e.rd
    /\ passes' = passes + 1
    /\ UNCHANGED <<panicked, denied, expr, pc, robotsVars>>

\* The loop condition fails: parse returns.
ParseReturn ==
    /\ pc = "loop"
    /\ r = <<>>
    /\ pc' = "done"
    /\ UNCHANGED <<up, panicked, denied, expr, r, passes, robotsVars>>

NextParse == ParseEntry \/ ParseReturn

SpecParse == InitParse /\ [][NextParse]_vars

(***************************************************************************)
(* Robots::parse line by line and Robots::preferences on what it built.    *)
(* The BufRead input is the line source: read_line yields any line of      *)
(* source.lines, at most source.limit times, then 0 (end of file).         *)
(***************************************************************************)
\* while input.read_line(&mut buf)? > 0 { .. }: one pass, on the line buf
ReadLine(buf) ==
    /\ rpc = "read"
    /\ line < source.limit
    /\ \E st \in {IF from_utf8(buf)
                   THEN read_line([groups |-> robots, group |-> group,
                                   line |-> line, ua |-> ua], buf)
                   ELSE [groups |-> robots, group |-> group,
                         line |-> line, ua |-> ua]} :
        /\ robots' = st.groups
        /\ group' = st.group
        /\ line' = st.line
        /\ ua' = st.ua
    /\ consumed' = Append(consumed, buf)
    /\ rpc' = IF from_utf8(buf) THEN "read" ELSE "invalid_data"
    /\ UNCHANGED <<up, panicked, denied, parserVars, source, answer>>

\* input.read_line(&mut buf)?: the reader under the BufRead fails
ReadError ==
    /\ rpc = "read"
    /\ rpc' = "io_error"
    /\ UNCHANGED <<up, panicked, denied, parserVars, source, consumed, robots,
                   group, line, ua, answer>>

\* read_line returned 0: r.groups.push(group); Ok(r)
Eof ==
    /\ rpc = "read"
    /\ robots' = Append(robots, group)
    /\ rpc' = "parsed"
    /\ UNCHANGED <<up, panicked, denied, parserVars, source, consumed, group,
                   line, ua, answer>>

\* r.preferences(user_agent, path)
Query(user_agent, path) ==
    /\ rpc = "parsed"
    /\ answer' = [user_agent |-> user_agent, path |-> path,
                  result |-> preferences(robots, user_agent, path)]
    /\ UNCHANGED <<up, panicked, denied, parserVars, source, consumed, robots,
                   group, line, ua, rpc>>

NextRobots ==
    \/ \E buf \in source.lines : ReadLine(buf)
    \/ ReadError
    \/ Eof
    \/ \E user_agent \in source.agents : \E path \in source.paths :
           Query(user_agent, path)

\* Robots::parse has made its locals and reads from src.
Reading(src) ==
    /\ up = blank
    /\ panicked = FALSE
    /\ denied = [no |-> {}, yes_after |-> FALSE]
    /\ parserIdle
    /\ source = src
    /\ consumed = <<>>
    /\ robots = parse_start.groups
    /\ group = parse_start.group
    /\ line = parse_start.line
    /\ ua = parse_start.ua
    /\ rpc = "read"
    /\ answer = NoAnswer

PathA == <<"/", "a">>

PathAB == <<"/", "a", "b">>

PathB == <<"/", "b">>

BOT == <<"B", "O", "T">>

OtherAgent == <<"x">>

AgentStar ==
    <<"U", "s", "e", "r", "-", "a", "g", "e", "n", "t", ":", " ", "*", "\n">>

AgentBot ==
    <<"U", "s", "e", "r", "-", "A", "g", "e", "n", "t", ":", " ", "B", "o",
      "t", "\n">>

AllowRoot == <<"A", "l", "l", "o", "w", ":", " ", "/", "\n">>

DisallowA ==
    <<"D", "i", "s", "a", "l", "l", "o", "w", ":", " ", "/", "a", "\n">>

UsageAllNo ==
    <<"C", "o", "n", "t", "e", "n", "t", "-", "U", "s", "a", "g", "e", ":",
      " ", "a", "l", "l", "=", "n", "\n">>

(***************************************************************************)
(* Specification SpecRobots: files with a wildcard group and a group for   *)
(* one named agent.                                                        *)
(***************************************************************************)
MaxLines == 5

InitRobots ==
    Reading([lines  |-> {AgentStar, AgentBot, AllowRoot, DisallowA, UsageAllNo},
             limit  |-> MaxLines,
             agents |-> {BOT, OtherAgent},
             paths  |-> {PathA, PathB}])

SpecRobots == InitRobots /\ [][NextRobots]_vars

(***************************************************************************)
(* Specification SpecAdmit: files of allow and disallow rules of several   *)
(* lengths in one or more wildcard groups.                                 *)
(***************************************************************************)
AllowA == <<"a", "l", "l", "o", "w", ":", " ", "/", "a", "\n">>

DisallowRoot ==
    <<"D", "i", "s", "a", "l", "l", "o", "w", ":", " ", "/", "\n">>

DisallowAB ==
    <<"d", "i", "s", "a", "l", "l", "o", "w", ":", " ", "/", "a", "b", " ",
      "#", " ", "l", "o", "n", "g", "e", "r", "\n">>

AllowStarB == <<"A", "l", "l", "o", "w", ":", " ", "/", "*", "b", "\n">>

AllowAny == <<"A", "l", "l", "o", "w", ":", "\n">>

MaxAdmitLines == 4

InitAdmit ==
    Reading([lines  |-> {AgentStar, AllowA, DisallowA, DisallowRoot,
                         DisallowAB, AllowStarB, AllowAny},
             limit  |-> MaxAdmitLines,
             agents |-> {OtherAgent},
             paths  |-> {PathA, PathAB}])

SpecAdmit == InitAdmit /\ [][NextRobots]_vars

(***************************************************************************)
(* Specification SpecUsage: files of content-usage rules of several        *)
(* lengths in one or more wildcard groups that admit every path.           *)
(***************************************************************************)
UsageA ==
    <<"C", "o", "n", "t", "e", "n", "t", "-", "U", "s", "a", "g", "e", ":",
      " ", "/", "a", " ", "t", "r", "a", "i", "n", "-", "a", "i", "=", "y",
      "\n">>

UsageStar ==
    <<"c", "o", "n", "t", "e", "n", "t", "-", "u", "s", "a", "g", "e", ":",
      " ", "/", "*", " ", "t", "r", "a", "i", "n", "-", "a", "i", "=", "n",
      "\n">>

UsageAny ==
    <<"C", "o", "n", "t", "e", "n", "t", "-", "U", "s", "a", "g", "e", ":",
      " ", "t", "r", "a", "i", "n", "-", "a", "i", "=", "n", ",", " ", "s",
      "e", "a", "r", "c", "h", "=", "n", "\n">>

UsageLong ==
    <<"C", "o", "n", "t", "e", "n", "t", "-", "U", "s", "a", "g", "e", ":",
      " ", "/", "a", "*", " ", "t", "r", "a", "i", "n", "-", "a", "i", "=",
      "y", "\n">>

MaxUsageLines == 5

InitUsage ==
    Reading([lines  |-> {AgentStar, AllowRoot, UsageA, UsageStar, UsageAny,
                         UsageLong},
             limit  |-> MaxUsageLines,
             agents |-> {OtherAgent},
             paths  |-> {PathA, PathB}])

SpecUsage == InitUsage /\ [][NextRobots]_vars

(***************************************************************************)
(* Specification SpecMatch: files of allow rules whose patterns hold '*'   *)
(* and '$', and of rules without a path, in wildcard groups.               *)
(***************************************************************************)
AllowLine(pattern) == <<"A", "l", "l", "o", "w", ":", " ">> \o pattern \o <<"\n">>

Patterns ==
    {<<>>, <<"/", "a">>, <<"/", "a", "$">>, <<"/", "*", "a", "$">>,
     <<"/", "a", "*", "$">>, <<"/", "a", "*", "a">>, <<"/", "a", "*", "a", "$">>,
     <<"/", "*", "*", "b", "$">>, <<"*">>, <<"$">>}

DisallowAny == <<"D", "i", "s", "a", "l", "l", "o", "w", ":", "\n">>

PathRoot == <<"/">>

PathAA == <<"/", "a", "a">>

MaxMatchLines == 3

InitMatch ==
    Reading([lines  |-> {AllowLine(pattern) : pattern \in Patterns}
                        \cup {AgentStar, DisallowAny, UsageAllNo},
             limit  |-> MaxMatchLines,
             agents |-> {OtherAgent},
             paths  |-> {PathRoot, PathA, PathAA, PathAB}])

SpecMatch == InitMatch /\ [][NextRobots]_vars

(***************************************************************************)
(* Specification SpecGroups: files in which User-Agent lines, rules, a     *)
(* directive the parser does not know and a comment stand in any order.    *)
(***************************************************************************)
CrawlDelay ==
    <<"C", "r", "a", "w", "l", "-", "d", "e", "l", "a", "y", ":", " ", "1",
      "\n">>

CommentLine == <<"#", " ", "n", "o", "n", "e", "\n">>

AgentLines == {AgentStar, AgentBot}

RuleLines == {AllowRoot, UsageAllNo}

MaxGroupLines == 5

InitGroups ==
    Reading([lines  |-> AgentLines \cup RuleLines \cup {CrawlDelay, CommentLine},
             limit  |-> MaxGroupLines,
             agents |-> {BOT, OtherAgent},
             paths  |-> {PathA}])

SpecGroups == InitGroups /\ [][NextRobots]_vars

(***************************************************************************)
(* Specification SpecRead: files with lines the parser cannot use: no ':', *)
(* an unknown directive, an expression without a valid entry, and bytes    *)
(* that are not valid UTF-8.                                               *)
(***************************************************************************)
NoColon == <<"j", "u", "n", "k", "\n">>

BadExpression ==
    <<"C", "o", "n", "t", "e", "n", "t", "-", "U", "s", "a", "g", "e", ":",
      " ", "=", "y", ",", ",", "a", "l", "l", "\n">>

InvalidBytes == <<"A", "l", "l", "o", "w", ":", " ", "/", "xFF", "\n">>

MaxReadLines == 3

InitRead ==
    Reading([lines  |-> {AgentStar, AllowRoot, NoColon, BadExpression, CrawlDelay,
                         InvalidBytes},
             limit  |-> MaxReadLines,
             agents |-> {OtherAgent},
             paths  |-> {PathA}])

SpecRead == InitRead /\ [][NextRobots]_vars

(***************************************************************************)
(* Specification SpecDiscard: files with a content-usage line that holds a *)
(* path and no expression (test::parse_basic, "content-USAGE: /NO-PREFS"). *)
(***************************************************************************)
UsagePathOnly ==
    <<"C", "o", "n", "t", "e", "n", "t", "-", "U", "s", "a", "g", "e", ":",
      " ", "/", "a", "\n">>

MaxDiscardLines == 6

InitDiscard ==
    Reading([lines  |-> {AgentStar, AgentBot, AllowRoot, UsagePathOnly, UsageAllNo},
             limit  |-> MaxDiscardLines,
             agents |-> {OtherAgent},
             paths  |-> {PathA}])

SpecDiscard == InitDiscard /\ [][NextRobots]_vars

(***************************************************************************)
(* Specification SpecCascade: files of content-usage rules of one pattern  *)
(* length that set a key and that set an ancestor of it.                   *)
(***************************************************************************)
UsageStarAllNo ==
    <<"C", "o", "n", "t", "e", "n", "t", "-", "U", "s", "a", "g", "e", ":",
      " ", "/", "*", " ", "a", "l", "l", "=", "n", "\n">>

UsageGenai ==
    <<"C", "o", "n", "t", "e", "n", "t", "-", "U", "s", "a", "g", "e", ":",
      " ", "/", "a", " ", "t", "r", "a", "i", "n", "-", "g", "e", "n", "a",
      "i", "=", "y", "\n">>

MaxCascadeLines == 5

InitCascade ==
    Reading([lines  |-> {AgentStar, AllowRoot, UsageA, UsageStarAllNo, UsageGenai},
             limit  |-> MaxCascadeLines,
             agents |-> {OtherAgent},
             paths  |-> {PathA, PathB}])

SpecCascade == InitCascade /\ [][NextRobots]_vars

(***************************************************************************)
(* Properties of the forest (specification Spec)                           *)
(***************************************************************************)
\* C5: deny-dominance.  A node into which a No has been merged, by an entry
\* of a parsed expression or by a forest merge, holds No, whatever Yes merges
\* came before, between or after.
C5_DenyDominance == \A i \in denied.no : up.items[i].value = "No"

\* A Yes has been merged into a node after a No, and the node holds No.
C5_Witness ==
    /\ denied.yes_after
    /\ \E i \in denied.no : up.items[i].value = "No"

\* The node itself and the nodes above it.
RECURSIVE UpFrom(_, _)
UpFrom(self, i) ==
    {i} \cup (IF self.items[i].parent = None THEN {}
              ELSE UpFrom(self, self.items[i].parent))

\* The state the cascade gives node i: that of the nearest node of UpFrom
\* that is not Unknown (the one every other such node is above or equal to),
\* the default when there is none.
Cascade(self, i, d) ==
    LET set == {j \in UpFrom(self, i) : self.items[j].value # "Unknown"}
        near == CHOOSE j \in set : \A k \in set : k \in UpFrom(self, j)
    IN  IF set = {} THEN d
        ELSE IF self.items[near].value = "Yes" THEN "Allowed" ELSE "Denied"

\* C6: cascade.  eval of a registered name is the state of the first node
\* that is not Unknown on the way from the node up through its parents, and
\* the caller's default when all of them are Unknown.
C6_Cascade ==
    \A i \in 1..Len(up.items), d \in UsagePreference :
        eval(up, up.items[i].name, d) = Cascade(up, i, d)

\* An Unknown node below an Unknown parent takes its grandparent's state, and
\* some node's own state differs from the one its parent resolves to.
C6_Witness ==
    /\ \E i \in 1..Len(up.items) :
          /\ up.items[i].value = "Unknown"
          /\ up.items[i].parent # None
          /\ up.items[up.items[i].parent].value = "Unknown"
          /\ up.items[up.items[i].parent].parent # None
          /\ up.items[up.items[up.items[i].parent].parent].value # "Unknown"
    /\ \E j \in 1..Len(up.items) :
          /\ up.items[j].parent # None
          /\ up.items[j].value # "Unknown"
          /\ up.items[up.items[j].parent].value # "Unknown"
          /\ up.items[j].value # up.items[up.items[j].parent].value
    /\ \E k \in 1..Len(up.items), d \in UsagePreference :
          Cascade(up, k, d) = d /\ up.items[k].parent # None

\* The names eval is probed with.
ProbeNames ==
    NameSet \cup {ALL, TRAIN_AI, TRAIN_GENAI, AI_USE, SEARCH, <<>>,
                  <<"a", "l">>, <<"a", "l", "l", " ">>}

\* C7: eval of a name that is not registered returns the default, for both
\* defaults, in every forest add, add_child, parse and merge can produce.
C7_UnregisteredIsDefault ==
    \A n \in ProbeNames, d \in UsagePreference :
        (\A k \in 1..Len(up.items) : up.items[k].name # n) => eval(up, n, d) = d

\* An unregistered name is probed that a registered name with a resolved
\* state starts with.
C7_Witness ==
    \E n \in ProbeNames, k \in 1..Len(up.items) :
        /\ \A j \in 1..Len(up.items) : up.items[j].name # n
        /\ Len(up.items[k].name) > Len(n)
        /\ Take(up.items[k].name, Len(n)) = n
        /\ get_state(up, k) # "Unknown"
        /\ eval(up, n, "Allowed") = "Allowed"
        /\ eval(up, n, "Denied") = "Denied"

(***************************************************************************)
(* Properties of manual::parse (specification SpecParse)                   *)
(***************************************************************************)
\* The forest parse was called on: fixtures hold no state yet.
Fresh(self) ==
    [self EXCEPT !.items = [k \in 1..Len(self.items) |->
                              [self.items[k] EXCEPT !.value = "Unknown"]]]

StateOf(v) == IF v = <<"y">> THEN "Yes" ELSE "No"

FirstComma(s) == MinOrNone({k \in 1..Len(s) : s[k] = ","})

\* C8: a malformed entry cannot desynchronize the entries after it.  When
\* the input is e ++ "," ++ w, e holding no ',' and w a plain entry n=y or
\* n=n for a registered name, parse merges w's state into node n: the node
\* ends with the merge of what parse(e) alone leaves in it and w's state.
C8_Resynchronizes ==
    pc = "done" =>
        \A n \in Names(up), v \in YN :
            LET k == FirstComma(expr)
                i == index_of(up, n)
            IN  (k # None /\ Drop(expr, k) = Entry(n, v)) =>
                    up.items[i].value =
                        State_merge(parse(Fresh(up), Take(expr, k - 1)).items[i].value,
                                    StateOf(v))

\* Plain entries: a name, '=' and y or n, each optionally set off by a space.
Pad == {<<>>, <<" ">>}

PlainEntries ==
    {p1 \o n \o p2 \o <<"=">> \o p3 \o v \o p4 :
        n \in {A, B, AB}, v \in YN, p1 \in Pad, p2 \in Pad, p3 \in Pad, p4 \in Pad}

\* A well-formed expression: plain entries separated by ','.
RECURSIVE WellFormed(_)
WellFormed(s) ==
    LET k == FirstComma(s)
    IN  IF k = None THEN s \in PlainEntries
        ELSE Take(s, k - 1) \in PlainEntries /\ WellFormed(Drop(s, k))

\* C9: parsing is associative with respect to splitting.  Wherever the
\* input is a ++ "," ++ b with a and b well-formed, parsing it into a fresh
\* forest resolves every node to the state that parsing a and then b does.
C9_SplitAssociative ==
    pc = "done" =>
        \A k \in 1..Len(expr) :
            (/\ expr[k] = ","
             /\ WellFormed(Take(expr, k - 1))
             /\ WellFormed(Drop(expr, k))) =>
                LET split == parse(parse(Fresh(up), Take(expr, k - 1)), Drop(expr, k))
                IN  \A i \in 1..Len(up.items) :
                        get_state(up, i) = get_state(split, i)

\* A three-entry input has been parsed whose first entry allows a node and
\* whose later entries changed other nodes' resolved state.
C9_Witness ==
    /\ pc = "done"
    /\ passes = 3
    /\ \E k \in 1..Len(expr) :
          /\ expr[k] = ","
          /\ WellFormed(Take(expr, k - 1))
          /\ WellFormed(Drop(expr, k))
          /\ parse(Fresh(up), Take(expr, k - 1)) # Fresh(up)
          /\ parse(Fresh(up), Take(expr, k - 1)) # up
    /\ \E i \in 1..Len(up.items) : up.items[i].value = "Yes"
    /\ \E i \in 1..Len(up.items) : up.items[i].value = "No"

\* C10: parse ends without panicking on every input.  Every pass of the
\* while loop consumes at least one byte, so the loop ends after at most
\* Len(expr) passes, and the index parse_name hands to the update is None or
\* an index of the item list.
C10_ParseTerminates ==
    [][pc = "loop" =>
          /\ parse_name(up.items, r, up.max_len).pos \in 0..Len(up.items)
          /\ \/ r = <<>> /\ pc' = "done"
             \/ r # <<>> /\ Len(r') < Len(r) /\ passes' <= Len(expr)]_vars

\* parse has returned from an input holding an invalid byte after several
\* passes, in a forest with no registered name.
C10_Witness ==
    /\ pc = "done"
    /\ up = blank
    /\ passes >= 2
    /\ \E k \in 1..Len(expr) : expr[k] = "xFF"

\* The entry a pass of the loop starts at: the input up to the next ','.
Segment(rd) == Before(rd, FirstComma(rd))

FirstEquals(s) == MinOrNone({k \in 1..Len(s) : s[k] = "="})

\* The name and the value of an entry that holds a '=', both with the
\* surrounding ASCII whitespace removed.
EntryName(s) == trim_ascii(Before(s, FirstEquals(s)))

EntryValue(s) == trim_ascii(Drop(s, FirstEquals(s)))

\* The nodes whose stored value the step changes.
Changed == {i \in 1..Len(up.items) : up'.items[i].value # up.items[i].value}

\* C11: an entry for a registered name changes its node only when its value,
\* without the surrounding whitespace, is exactly y or n up to the ',' or the
\* end of the input, and then it merges Yes or No into the node; any other
\* value (yes, no, junk, empty) leaves every node as it was.
C11_ValueIsYOrN ==
    [][(pc = "loop" /\ r # <<>>) =>
          /\ Changed # {} =>
                 /\ FirstEquals(Segment(r)) # None
                 /\ EntryValue(Segment(r)) \in YN
          /\ (/\ FirstEquals(Segment(r)) # None
              /\ EntryName(Segment(r)) \in Names(up)
              /\ EntryValue(Segment(r)) \in YN) =>
                 up'.items[index_of(up, EntryName(Segment(r)))].value =
                     State_merge(up.items[index_of(up, EntryName(Segment(r)))].value,
                                 StateOf(EntryValue(Segment(r))))]_vars

\* parse has returned from "n=no,n=y" for a registered n, and the node is
\* allowed: the value no merged nothing, the y after it did.
C11_Witness ==
    /\ pc = "done"
    /\ \E n \in Names(up) :
           /\ expr = Entry(n, <<"n", "o">>) \o <<",">> \o Entry(n, <<"y">>)
           /\ up.items[index_of(up, n)].value = "Yes"

\* C12: parse changes a node only through an entry whose name, without the
\* leading and trailing whitespace, equals the node's registered name; an
\* entry with an unregistered name, or one longer than max_len, changes no
\* node.
C12_NameIsExact ==
    [][(pc = "loop" /\ r # <<>>) =>
          /\ \A i \in Changed :
                 /\ FirstEquals(Segment(r)) # None
                 /\ EntryName(Segment(r)) = up.items[i].name
          /\ (\/ FirstEquals(Segment(r)) = None
              \/ EntryName(Segment(r)) \notin Names(up)
              \/ Len(EntryName(Segment(r))) > up.max_len) => up'.items = up.items
          /\ up'.max_len = up.max_len]_vars

\* parse has returned from an entry that gives y to a name longer than
\* max_len whose first bytes are a registered name, and no node has a state.
C12_Witness ==
    /\ pc = "done"
    /\ up.items # <<>>
    /\ \E v \in YN : expr = Entry(AB, v)
    /\ up.max_len < Len(AB)
    /\ A \in Names(up)
    /\ up = Fresh(up)

(***************************************************************************)
(* Properties of Robots::preferences, Group::is_admitted and               *)
(* Group::preferences (specifications SpecRobots, SpecAdmit, SpecUsage)    *)
(***************************************************************************)
\* Robots::preferences has been called on the parsed file.
Asked == rpc = "parsed" /\ answer # NoAnswer

\* The elements of s at the indices I, in the order of s.
Pick(s, I) ==
    [k \in 1..Cardinality(I) |->
        s[CHOOSE i \in I : Cardinality({j \in I : j <= i}) = k]]

Reverse(s) == [k \in 1..Len(s) |-> s[Len(s) + 1 - k]]

\* The groups of gs whose agent set holds the case-folded agent.
NamedBy(gs, agent) ==
    Pick(gs, {k \in 1..Len(gs) :
                to_ascii_lowercase(agent) \in
                    {gs[k].user_agents[j] : j \in 1..Len(gs[k].user_agents)}})

ExactGroups == NamedBy(robots, answer.user_agent)

WildGroups == NamedBy(robots, STAR)

\* The group set the answer was computed from, when there is one.
SelectedGroups ==
    IF is_admitted(ExactGroups, answer.path) THEN ExactGroups ELSE WildGroups

\* The indices of the rules (admission or content-usage) that match path.
Matches(rules, path) == {k \in 1..Len(rules) : path_match(rules[k].path, path)}

\* Those of the greatest pattern length among the matching ones.
Longest(rules, path) ==
    {k \in Matches(rules, path) :
        \A j \in Matches(rules, path) : Len(rules[j].path) <= Len(rules[k].path)}

\* C1: Robots::preferences returns None exactly when neither the groups
\* naming the case-folded agent nor the groups naming * admit the path; when
\* the exact groups admit it the forest is that of the exact groups alone,
\* otherwise, when the wildcard groups admit it, that of the wildcard groups
\* alone (also when the exact groups hold a matching disallow).
C1_ExactThenWildcard ==
    Asked =>
        /\ ~answer.result.some <=>
               /\ ~is_admitted(ExactGroups, answer.path)
               /\ ~is_admitted(WildGroups, answer.path)
        /\ is_admitted(ExactGroups, answer.path) =>
               answer.result = Some(Group_preferences(ExactGroups, answer.path))
        /\ (~is_admitted(ExactGroups, answer.path)
              /\ is_admitted(WildGroups, answer.path)) =>
               answer.result = Some(Group_preferences(WildGroups, answer.path))

\* The exact groups hold a matching disallow and do not admit the path, the
\* wildcard groups admit it, and the answer is the wildcard groups' forest,
\* which differs from the exact groups'.
C1_Witness ==
    /\ Asked
    /\ \E k \in Matches(Admissions(ExactGroups), answer.path) :
           ~Admissions(ExactGroups)[k].allow
    /\ ~is_admitted(ExactGroups, answer.path)
    /\ is_admitted(WildGroups, answer.path)
    /\ answer.result = Some(Group_preferences(WildGroups, answer.path))
    /\ Group_preferences(WildGroups, answer.path)
           # Group_preferences(ExactGroups, answer.path)

\* Some matching allow rule is as long as every matching rule.
AllowAtGreatestLength(rules, path) ==
    \E k \in Longest(rules, path) : rules[k].allow

\* The groups in the reverse order, each with its rules in the reverse order.
Flip(gs) ==
    Reverse([k \in 1..Len(gs) |->
                [gs[k] EXCEPT !.admissions = Reverse(@),
                              !.usage_preferences = Reverse(@)]])

\* C2: Group::is_admitted is true exactly when some matching allow rule has
\* the greatest pattern length among the matching rules of the groups (false
\* when none matches), so the order of rules and groups does not matter.
C2_AllowAtGreatestLength ==
    Asked =>
        \A gs \in {ExactGroups, WildGroups, robots} :
            /\ is_admitted(gs, answer.path)
                   <=> AllowAtGreatestLength(Admissions(gs), answer.path)
            /\ is_admitted(Flip(gs), answer.path) = is_admitted(gs, answer.path)

\* A disallow comes before an allow of the same, greatest, matching length,
\* a shorter rule matches too, and the path is admitted.
C2_Witness ==
    /\ Asked
    /\ answer.result.some
    /\ \E i, k \in Longest(Admissions(WildGroups), answer.path) :
           /\ i < k
           /\ ~Admissions(WildGroups)[i].allow
           /\ Admissions(WildGroups)[k].allow
    /\ Matches(Admissions(WildGroups), answer.path)
           # Longest(Admissions(WildGroups), answer.path)

\* The state a set of resolved states merges to.
Merged(S) ==
    IF "No" \in S THEN "No" ELSE IF "Yes" \in S THEN "Yes" ELSE "Unknown"

\* The default forest with the rules at the indices I merged into it.
MergedRules(rules, I) ==
    [default EXCEPT !.items =
        [i \in 1..Len(default.items) |->
            [default.items[i] EXCEPT !.value =
                Merged({get_state(rules[k].usage, i) : k \in I})]]]

\* C3: Group::preferences merges into the default forest exactly the
\* matching content-usage rules of the greatest matching pattern length: all
\* of them, and no shorter one wherever it stands.
C3_LongestRulesMerged ==
    Asked =>
        /\ \A gs \in {ExactGroups, WildGroups, robots} :
               /\ matching_rules(gs, answer.path)
                      = Pick(UsageLines(gs), Longest(UsageLines(gs), answer.path))
               /\ Group_preferences(gs, answer.path)
                      = MergedRules(UsageLines(gs),
                                    Longest(UsageLines(gs), answer.path))
        /\ answer.result.some =>
               answer.result.prefs
                   = MergedRules(UsageLines(SelectedGroups),
                                 Longest(UsageLines(SelectedGroups), answer.path))

\* Two rules of the greatest length were merged and a shorter matching rule,
\* scanned before them, denies a key the answer does not deny.
C3_Witness ==
    /\ Asked
    /\ answer.result.some
    /\ Cardinality(Longest(UsageLines(SelectedGroups), answer.path)) >= 2
    /\ \E j \in Matches(UsageLines(SelectedGroups), answer.path) :
           /\ \A k \in Longest(UsageLines(SelectedGroups), answer.path) : j < k
           /\ \E i \in 1..Len(default.items) :
                  /\ UsageLines(SelectedGroups)[j].usage.items[i].value = "No"
                  /\ answer.result.prefs.items[i].value # "No"

\* The rule at index i sets the key to y and the rule at index j sets it to n.
SetYesAndNo(rules, i, j, key) ==
    /\ rules[i].usage.items[key].value = "Yes"
    /\ rules[j].usage.items[key].value = "No"

\* C4 as stated: whenever two matching content-usage rules of equal pattern
\* length set a key to y and to n, the answer evaluates the key to Denied.
C4_EqualLengthIsDenied ==
    (Asked /\ answer.result.some) =>
        \A i, j \in Matches(UsageLines(SelectedGroups), answer.path) :
            \A key \in 1..Len(default.items) :
                (/\ Len(UsageLines(SelectedGroups)[i].path)
                        = Len(UsageLines(SelectedGroups)[j].path)
                 /\ SetYesAndNo(UsageLines(SelectedGroups), i, j, key)) =>
                    eval(answer.result.prefs, default.items[key].name, "Allowed")
                        = "Denied"

\* C4, amended: whenever two matching content-usage rules of the greatest
\* matching pattern length set a key to y and to n, the answer evaluates the
\* key to Denied, in either order of the rules and in whichever groups.
C4_TieIsDenied ==
    (Asked /\ answer.result.some) =>
        \A i, j \in Longest(UsageLines(SelectedGroups), answer.path) :
            \A key \in 1..Len(default.items) :
                SetYesAndNo(UsageLines(SelectedGroups), i, j, key) =>
                    eval(answer.result.prefs, default.items[key].name, "Allowed")
                        = "Denied"

\* The rule that sets train-ai to n stands in the first selected group, the
\* rule that sets it to y in the second, both of the greatest matching
\* length, and the answer denies train-ai.
C4_Witness ==
    /\ Asked
    /\ answer.result.some
    /\ Len(SelectedGroups) = 2
    /\ \E j \in 1..Len(SelectedGroups[1].usage_preferences) :
       \E i \in Longest(UsageLines(SelectedGroups), answer.path) :
           /\ i > Len(SelectedGroups[1].usage_preferences)
           /\ j \in Longest(UsageLines(SelectedGroups), answer.path)
           /\ SetYesAndNo(UsageLines(SelectedGroups), i, j,
                          index_of(default, TRAIN_AI))
    /\ eval(answer.result.prefs, TRAIN_AI, "Allowed") = "Denied"

(***************************************************************************)
(* Properties of Group::path_match and Group::parse_line (specification    *)
(* SpecMatch)                                                              *)
(***************************************************************************)
\* RFC 9309, 2.2.3: the path matches the pattern from its first character
\* on, '*' standing for any run of characters, a final '$' for the end of
\* the path; without it any suffix may follow.
RECURSIVE Rfc9309Match(_, _)
Rfc9309Match(pattern, path) ==
    IF pattern = <<>> THEN TRUE
    ELSE IF pattern = <<"$">> THEN path = <<>>
    ELSE IF Head(pattern) = "*"
    THEN \E k \in 0..Len(path) : Rfc9309Match(Tail(pattern), Drop(path, k))
    ELSE /\ path # <<>>
         /\ Head(path) = Head(pattern)
         /\ Rfc9309Match(Tail(pattern), Tail(path))

\* C13: for every rule of the parsed file, path_match of its pattern and
\* the queried path is the RFC 9309 match of the two.
C13_PathMatchIsRfc9309 ==
    Asked =>
        \A k \in 1..Len(Admissions(robots)) :
            path_match(Admissions(robots)[k].path, answer.path)
                <=> Rfc9309Match(Admissions(robots)[k].path, answer.path)

\* The rules the line at position k of the file has left in the groups.
AdmissionsOfLine(k) ==
    {a \in {Admissions(robots)[i] : i \in 1..Len(Admissions(robots))} : a.line = k}

UsageOfLine(k) ==
    {u \in {UsageLines(robots)[i] : i \in 1..Len(UsageLines(robots))} : u.line = k}

\* C14: the empty pattern matches every path.  An Allow or a Disallow line
\* with an empty value and a Content-Usage line without a path, read after
\* a User-Agent line, each leave one rule whose pattern is empty, of length
\* 0, and that rule matches the queried path.
C14_EmptyPatternMatchesAll ==
    Asked =>
        /\ path_match(<<>>, answer.path)
        /\ \A k \in 2..Len(consumed) :
               /\ (consumed[1] = AgentStar
                     /\ consumed[k] \in {AllowLine(<<>>), DisallowAny}) =>
                      /\ Cardinality(AdmissionsOfLine(k)) = 1
                      /\ \A a \in AdmissionsOfLine(k) :
                             /\ a.path = <<>>
                             /\ a.allow = (consumed[k] = AllowLine(<<>>))
                             /\ path_match(a.path, answer.path)
               /\ (consumed[1] = AgentStar /\ consumed[k] = UsageAllNo) =>
                      /\ Cardinality(UsageOfLine(k)) = 1
                      /\ \A u \in UsageOfLine(k) :
                             /\ u.path = <<>>
                             /\ path_match(u.path, answer.path)

\* The only rules of the file are an Allow with an empty value and a
\* Content-Usage without a path; the path is admitted and every key denied.
C14_Witness ==
    /\ Asked
    /\ consumed = <<AgentStar, AllowLine(<<>>), UsageAllNo>>
    /\ answer.path = PathAB
    /\ answer.result.some
    /\ eval(answer.result.prefs, SEARCH, "Allowed") = "Denied"

(***************************************************************************)
(* Properties of Robots::parse (specification SpecGroups)                  *)
(***************************************************************************)
MaxOrNone(S) == IF S = {} THEN None ELSE Max(S)

\* The elements of the set of numbers I in increasing order.
Ascending(I) == Pick([k \in 1..(IF I = {} THEN 0 ELSE Max(I)) |-> k], I)

\* The last directive line before line k of the file, a comment is none.
PrevDirective(k) ==
    MaxOrNone({j \in 1..(k - 1) : consumed[j] # CommentLine})

\* Line k is a User-Agent line that does not continue a run of them.
RunStart(k) ==
    /\ consumed[k] \in AgentLines
    /\ (PrevDirective(k) = None \/ consumed[PrevDirective(k)] \notin AgentLines)

\* The first line of the most recent User-Agent run at or before line k.
Owner(k) == MaxOrNone({j \in 1..k : RunStart(j)})

AgentOf(l) == IF l = AgentStar THEN STAR ELSE to_ascii_lowercase(BOT)

\* The lines of kind K that belong to the run starting at line j.
OwnedBy(j, K) == Ascending({k \in 1..Len(consumed) : consumed[k] \in K /\ Owner(k) = j})

\* The group the run starting at line j is to leave.
GroupOfRun(j) ==
    [line              |-> j,
     user_agents       |-> [i \in 1..Len(OwnedBy(j, AgentLines)) |->
                               AgentOf(consumed[OwnedBy(j, AgentLines)[i]])],
     admissions        |-> [i \in 1..Len(OwnedBy(j, {AllowRoot})) |->
                               AdmissionLine(OwnedBy(j, {AllowRoot})[i], TRUE, PathRoot)],
     usage_preferences |-> [i \in 1..Len(OwnedBy(j, {UsageAllNo})) |->
                               ContentUsageLine(OwnedBy(j, {UsageAllNo})[i], <<>>,
                                                parse(default, <<"a", "l", "l", "=", "n">>))]]

\* The groups of the parsed file that a User-Agent line created.
Created == Pick(robots, {i \in 1..Len(robots) : robots[i].line # 0})

\* The groups, in source order, are those of the User-Agent runs: a
\* User-Agent line continuing a run adds its folded value to the run's
\* group, one after another directive starts a group, and a rule after a
\* User-Agent line is in the group of the most recent run and in no other.
GroupsAreRuns ==
    Created = [i \in 1..Cardinality({k \in 1..Len(consumed) : RunStart(k)}) |->
                  GroupOfRun(Ascending({k \in 1..Len(consumed) : RunStart(k)})[i])]

\* The groups of robots that hold a rule read from line k.
Holders(k) ==
    {i \in 1..Len(robots) :
        \/ \E a \in 1..Len(robots[i].admissions) : robots[i].admissions[a].line = k
        \/ \E u \in 1..Len(robots[i].usage_preferences) :
               robots[i].usage_preferences[u].line = k}

\* C15 as stated: the groups are those of the User-Agent runs, and every
\* rule of the file is stored in exactly one group, that of the most recent
\* User-Agent run before it.
C15_EveryRuleInItsRun ==
    rpc = "parsed" =>
        /\ GroupsAreRuns
        /\ \A k \in 1..Len(consumed) :
               consumed[k] \in RuleLines =>
                   /\ Cardinality(Holders(k)) = 1
                   /\ \A i \in Holders(k) :
                          robots[i].line # 0 /\ robots[i].line = Owner(k)

\* C15, amended: the same for every rule read after the first User-Agent
\* line of the file.
C15_RulesAfterAgentInTheirRun ==
    rpc = "parsed" =>
        /\ GroupsAreRuns
        /\ \A k \in 1..Len(consumed) :
               (consumed[k] \in RuleLines /\ Owner(k) # None) =>
                   /\ Cardinality(Holders(k)) = 1
                   /\ \A i \in Holders(k) : robots[i].line = Owner(k)

\* A run of two User-Agent lines made one group that holds a rule, and a
\* User-Agent line after that rule made a second group that holds a rule.
C15_Witness ==
    /\ rpc = "parsed"
    /\ Len(robots) = 2
    /\ Len(robots[1].user_agents) = 2
    /\ robots[1].admissions # <<>>
    /\ robots[2].line > robots[1].line
    /\ robots[2].usage_preferences # <<>>

\* The file without its line k.
WithoutLine(file, k) == Take(file, k - 1) \o Drop(file, k)

\* C16: a line with a directive name the parser does not know is ignored:
\* the answer to the query is the answer the file without that line gives.
C16_UnknownDirectiveIgnored ==
    Asked =>
        \A k \in 1..Len(consumed) :
            consumed[k] = CrawlDelay =>
                answer.result =
                    preferences(Robots_parse(WithoutLine(consumed, k)).groups,
                                answer.user_agent, answer.path)

\* Robots::parse has returned Err.
Failed == rpc \in {"io_error", "invalid_data"}

\* C17: Robots::parse fails only when the reader under the line source
\* reports an I/O failure; no content of the input makes it fail.
C17_FailsOnlyOnIoFailure == Failed => rpc = "io_error"

(***************************************************************************)
(* Properties of merge, add and add_child (specification Spec)             *)
(***************************************************************************)
\* The state node i of the forest resolves to: that of the nearest node, from
\* i upwards, that is not Unknown.
Resolved(self, i) ==
    LET set == {j \in UpFrom(self, i) : self.items[j].value # "Unknown"}
    IN  IF set = {} THEN "Unknown"
        ELSE self.items[CHOOSE j \in set : \A k \in set : k \in UpFrom(self, j)].value

\* The node of other that has the given name.
NodeOf(other, name) == CHOOSE j \in 1..Len(other.items) : other.items[j].name = name

\* C18: self.merge(other) gives every node of self whose name other
\* registers the State merge of its stored value and other's resolved state
\* for that name; every other node keeps its value; names, parents, order
\* and max_len stay.
C18_MergeFrame ==
    ~panicked =>
        \A other \in Others :
            /\ Len(merge(up, other).items) = Len(up.items)
            /\ merge(up, other).max_len = up.max_len
            /\ \A k \in 1..Len(up.items) :
                   /\ merge(up, other).items[k].name = up.items[k].name
                   /\ merge(up, other).items[k].parent = up.items[k].parent
                   /\ merge(up, other).items[k].value =
                          IF up.items[k].name \in Names(other)
                          THEN Merged({up.items[k].value,
                                       Resolved(other, NodeOf(other, up.items[k].name))})
                          ELSE up.items[k].value

\* A forest has been merged into the forest (a No was merged into a node);
\* merging another one would give a node the state that forest resolves to
\* through a parent, not the Unknown it stores, and leave alone a node with a
\* state whose name that forest does not register.
C18_Witness ==
    /\ ~panicked
    /\ denied.no # {}
    /\ \E other \in Others, k \in 1..Len(up.items) :
           /\ up.items[k].name \in Names(other)
           /\ other.items[NodeOf(other, up.items[k].name)].value = "Unknown"
           /\ Resolved(other, NodeOf(other, up.items[k].name)) # "Unknown"
           /\ merge(up, other).items[k].value # up.items[k].value
           /\ \E j \in 1..Len(up.items) :
                  /\ up.items[j].name \notin Names(other)
                  /\ up.items[j].value # "Unknown"

Reserved(name) == \E k \in 1..Len(name) : name[k] = "," \/ name[k] = "="

\* The forest with one more node, stateless, of the given name and parent.
WithNode(self, name, parent) ==
    [items   |-> Append(self.items, [name |-> name, parent |-> parent, value |-> "Unknown"]),
     max_len |-> Max({self.max_len, Len(name)})]

\* add and add_child on the forest: when they abort and what they leave.
AddContract ==
    ~panicked =>
        /\ \A n \in NameSet :
               /\ ~add(up, n).ok <=> (Reserved(n) \/ n \in Names(up))
               /\ add(up, n).up =
                      IF add(up, n).ok THEN WithNode(up, n, None) ELSE up
        /\ \A n \in NameSet, p \in NameSet \cup {ALL} :
               /\ ~add_child(up, n, p).ok
                      <=> (Reserved(n) \/ n \in Names(up) \/ p \notin Names(up))
               /\ add_child(up, n, p).up =
                      IF add_child(up, n, p).ok THEN WithNode(up, n, NodeOf(up, p))
                      ELSE up

\* The names of the forest are pairwise distinct and hold no ',' and no '='.
NamesAreValid ==
    /\ \A j, k \in 1..Len(up.items) : up.items[j].name = up.items[k].name => j = k
    /\ \A k \in 1..Len(up.items) : ~Reserved(up.items[k].name)

\* C19: add and add_child abort exactly when the name holds ',' or '=' or is
\* registered or, for add_child, the parent is not registered; a call that
\* aborts leaves the items and max_len as they were, one that does not
\* appends one node with state Unknown; so names stay distinct and without
\* ',' and '='.
C19_AddAbortsExactly ==
    /\ [](AddContract /\ NamesAreValid)
    /\ [][panicked' => (panicked \/ up' = up)]_vars

\* A call has aborted on a forest that holds a child node.
C19_Witness ==
    /\ panicked
    /\ \E k \in 1..Len(up.items) : up.items[k].parent # None

\* C20: a node's stored value only changes from Unknown to Yes, from Unknown
\* to No or from Yes to No, and no node is removed or renamed, in every
\* step of add, add_child, parse and merge.
C20_Monotonic ==
    [][/\ Len(up'.items) >= Len(up.items)
       /\ \A k \in 1..Len(up.items) :
              /\ up'.items[k].name = up.items[k].name
              /\ up'.items[k].parent = up.items[k].parent
              /\ \/ up'.items[k].value = up.items[k].value
                 \/ up.items[k].value = "Unknown"
                 \/ up.items[k].value = "Yes" /\ up'.items[k].value = "No"]_vars

\* In a forest that nodes were added to, a node holds No although a Yes was
\* merged into it afterwards, and another node holds Yes.
C20_Witness ==
    /\ denied.yes_after
    /\ Len(up.items) >= 3
    /\ up # default
    /\ \E i \in denied.no : up.items[i].value = "No"
    /\ \E j \in 1..Len(up.items) : up.items[j].value = "Yes"

(***************************************************************************)
(* The parent chain (specification Spec)                                   *)
(***************************************************************************)
\* The node reached from node i by n steps to the parent, None once the walk
\* has left the forest.
RECURSIVE Ancestor(_, _, _)
Ancestor(self, i, n) ==
    IF i = None \/ n = 0 THEN i
    ELSE Ancestor(self, self.items[i].parent, n - 1)

\* C21: every parent index that is set is smaller than the node's own
\* index, so no walk to the parents comes back to its node, and the walk
\* from a node has left the forest after as many steps as there are nodes up
\* to it.
C21_ParentsPrecede ==
    \A k \in 1..Len(up.items) :
        /\ up.items[k].parent # None => up.items[k].parent \in 1..(k - 1)
        /\ \A n \in 1..Len(up.items) : Ancestor(up, k, n) # k
        /\ Ancestor(up, k, k) = None

\* A forest built by add and add_child holds a node with a grandparent.
C21_Witness ==
    /\ ~panicked
    /\ \A k \in 1..Len(up.items) : up.items[k].name \in NameSet
    /\ \E k \in 1..Len(up.items) :
           /\ Ancestor(up, k, 2) # None
           /\ Ancestor(up, k, 3) = None

(***************************************************************************)
(* Content-usage lines without an expression (specification SpecDiscard)   *)
(***************************************************************************)
\* A content-usage line with a path and no expression leaves no rule.
PathOnlyAddsNoRule ==
    Asked => \A k \in 1..Len(consumed) :
                 consumed[k] = UsagePathOnly => UsageOfLine(k) = {}

\* A content-usage value that does not start with '/' gives a rule with the
\* empty path and the whole value as its expression.
NoPathIsWholeExpression ==
    Asked => \A k \in 1..Len(consumed) :
                 consumed[k] = UsageAllNo =>
                     /\ \A u \in UsageOfLine(k) :
                            /\ u.path = <<>>
                            /\ u.usage = parse(default, <<"a", "l", "l", "=", "n">>)
                     /\ (\E j \in 1..(k - 1) : consumed[j] \in AgentLines) =>
                            Cardinality(UsageOfLine(k)) = 1

\* C22: a content-usage line with a path and no expression adds no rule and
\* so does not change the answer to any query: the answer is the one the
\* file without the line gives; a content-usage value that does not start
\* with '/' gives a rule with the empty path and the whole value as its
\* expression.
C22_PathOnlyLineIsDiscarded ==
    /\ PathOnlyAddsNoRule
    /\ NoPathIsWholeExpression
    /\ Asked =>
           \A k \in 1..Len(consumed) :
               consumed[k] = UsagePathOnly =>
                   answer.result =
                       preferences(Robots_parse(WithoutLine(consumed, k)).groups,
                                   answer.user_agent, answer.path)

(***************************************************************************)
(* The forest of Group::preferences, key by key (specification SpecCascade)*)
(***************************************************************************)
\* The content-usage rules of the selected groups that were merged.
Surviving ==
    {UsageLines(SelectedGroups)[k] :
        k \in Longest(UsageLines(SelectedGroups), answer.path)}

\* The state the forest resolves the name to.
ResolvedKey(self, name) == Resolved(self, NodeOf(self, name))

\* The nodes above node i.
Above(self, i) == UpFrom(self, i) \ {i}

\* C23: in the forest returned, every default key resolves to the
\* deny-dominant merge of the states the forests of the surviving rules
\* resolve it to; so a key that one surviving rule sets to y is Denied when
\* another surviving rule denies an ancestor of it and leaves the key unset.
C23_ResolvedIsMergeOfResolved ==
    (Asked /\ answer.result.some) =>
        \A i \in 1..Len(default.items) :
            /\ ResolvedKey(answer.result.prefs, default.items[i].name)
                   = Merged({ResolvedKey(u.usage, default.items[i].name) :
                                u \in Surviving})
            /\ \A d \in UsagePreference :
                   eval(answer.result.prefs, default.items[i].name, d)
                       = IF \E u \in Surviving :
                               ResolvedKey(u.usage, default.items[i].name) = "No"
                         THEN "Denied"
                         ELSE IF \E u \in Surviving :
                                    ResolvedKey(u.usage, default.items[i].name) = "Yes"
                         THEN "Allowed"
                         ELSE d
            /\ (\E u, w \in Surviving :
                   /\ u.usage.items[i].value = "Yes"
                   /\ w.usage.items[i].value = "Unknown"
                   /\ \E j \in Above(default, i) : w.usage.items[j].value = "No") =>
                      eval(answer.result.prefs, default.items[i].name, "Allowed")
                          = "Denied"

\* One surviving rule sets train-genai to y, another denies all and leaves
\* train-genai unset; the answer denies train-genai.
C23_Witness ==
    /\ Asked
    /\ answer.result.some
    /\ \E u, w \in Surviving :
           /\ u.usage.items[index_of(default, TRAIN_GENAI)].value = "Yes"
           /\ w.usage.items[index_of(default, TRAIN_GENAI)].value = "Unknown"
           /\ w.usage.items[index_of(default, TRAIN_AI)].value = "Unknown"
           /\ w.usage.items[index_of(default, ALL)].value = "No"
    /\ eval(answer.result.prefs, TRAIN_GENAI, "Allowed") = "Denied"

(***************************************************************************)
(* Rules before the first User-Agent line (specification SpecRobots) and   *)
(* the groups stored (specification SpecGroups)                            *)
(***************************************************************************)
\* The rule lines of the file read that no User-Agent line precedes.
PreambleRules ==
    {k \in 1..Len(consumed) :
        /\ consumed[k] \in {AllowRoot, DisallowA, UsageAllNo}
        /\ \A j \in 1..k : consumed[j] \notin AgentLines}

\* The file read, without those lines.
WithoutPreamble == Pick(consumed, (1..Len(consumed)) \ PreambleRules)

\* User agents and paths to ask for, those of the queries and others.
ProbeAgents == {BOT, OtherAgent, STAR, <<>>}

ProbePaths == {PathRoot, PathA, PathB}

\* C24: the Allow, Disallow and Content-Usage lines before the first
\* User-Agent line are without influence: every query on the parsed file has
\* the answer it has on the file without them, whether a User-Agent line
\* follows them or not.
C24_PreambleHasNoInfluence ==
    (rpc = "parsed" /\ PreambleRules # {}) =>
        IF Asked
        THEN answer.result
                 = preferences(Robots_parse(WithoutPreamble).groups,
                               answer.user_agent, answer.path)
        ELSE \A agent \in ProbeAgents, path \in ProbePaths :
                 preferences(robots, agent, path)
                     = preferences(Robots_parse(WithoutPreamble).groups, agent, path)

\* A Disallow and a Content-Usage line stand before the first User-Agent
\* line, whose group allows the path: the answer holds a forest that denies
\* nothing.
C24_Witness ==
    /\ Asked
    /\ consumed = <<DisallowA, UsageAllNo, AgentStar, AllowRoot>>
    /\ answer.path = PathA
    /\ answer.result.some
    /\ answer.result.prefs = default

\* C25: every group of the value Robots::parse returns was created by a
\* User-Agent line: its line number is not 0 and it holds a user agent.
C25_EveryGroupHasAgent ==
    rpc = "parsed" =>
        \A i \in 1..Len(robots) :
            robots[i].line # 0 /\ robots[i].user_agents # <<>>

====
